---- MODULE Spec2Model ----
(***************************************************************************)
(* A model of baldrdashlift: the command dispatcher (main), the bump/local *)
(* pipelines, the build and test flows, the two version-control backends   *)
(* and the two manifest rewrites.  File contents, process output and       *)
(* network responses are real strings; the rewrites are computed the way   *)
(* the code computes them (split on "\n", per-line closure, join).         *)
(***************************************************************************)
EXTENDS Integers, Sequences, FiniteSets, TLC

(***************************************************************************)
(* Bounds.                                                                 *)
(***************************************************************************)
MaxTopLines == 6
MaxNestedLines == 3
MaxPasses == 2

(***************************************************************************)
(* String helpers (str::starts_with, ends_with, contains, split, join,     *)
(* trim, char::is_whitespace).                                             *)
(***************************************************************************)
Char(s, i) == SubSeq(s, i, i)

starts_with(s, p) == Len(s) >= Len(p) /\ SubSeq(s, 1, Len(p)) = p

ends_with(s, p) == Len(s) >= Len(p) /\ SubSeq(s, Len(s) - Len(p) + 1, Len(s)) = p

contains(s, p) == \E i \in 1..(Len(s) - Len(p) + 1) : SubSeq(s, i, i + Len(p) - 1) = p

is_whitespace(c) == c \in {" ", "\n", "\t", "\r"}

RECURSIVE SplitFrom(_, _)
SplitFrom(s, i) ==
    LET nl == {j \in i..Len(s) : Char(s, j) = "\n"}
    IN  IF nl = {} THEN <<SubSeq(s, i, Len(s))>>
        ELSE LET j == CHOOSE k \in nl : \A m \in nl : k <= m
             IN  <<SubSeq(s, i, j - 1)>> \o SplitFrom(s, j + 1)

split(s) == SplitFrom(s, 1)

RECURSIVE join(_)
join(q) ==
    IF Len(q) = 0 THEN ""
    ELSE IF Len(q) = 1 THEN q[1]
    ELSE q[1] \o "\n" \o join(Tail(q))

trim(s) ==
    LET keep == {i \in 1..Len(s) : ~is_whitespace(Char(s, i))}
    IN  IF keep = {} THEN ""
        ELSE LET lo == CHOOSE i \in keep : \A j \in keep : i <= j
                 hi == CHOOSE i \in keep : \A j \in keep : j <= i
             IN  SubSeq(s, lo, hi)

RECURSIVE retain_non_whitespace(_)
retain_non_whitespace(s) ==
    IF Len(s) = 0 THEN ""
    ELSE LET rest == retain_non_whitespace(SubSeq(s, 2, Len(s)))
         IN  IF is_whitespace(Char(s, 1)) THEN rest ELSE Char(s, 1) \o rest

(***************************************************************************)
(* VersionSpec: Fixed(version) or Path(path).                              *)
(***************************************************************************)
Fixed(v) == [tag |-> "Fixed", s |-> v]
Path(p) == [tag |-> "Path", s |-> p]
NoVersion == [tag |-> "None", s |-> ""]

(***************************************************************************)
(* replace_cranelift_version: the per-line closure and the whole rewrite   *)
(* of the nested manifest's content.                                       *)
(***************************************************************************)
CodegenLine_wrong_key(version) ==
    LET replacement == IF version.tag = "Fixed"
                       THEN "version = \"" \o version.s \o "\""
                       ELSE "path = \"" \o version.s \o "codegen\""
    IN  "cranelift-wasm = { " \o replacement \o ", default-features = false }"

CodegenLine(version) ==
    LET replacement == IF version.tag = "Fixed"
                       THEN "version = \"" \o version.s \o "\""
                       ELSE "path = \"" \o version.s \o "codegen\""
    IN  "cranelift-codegen = { " \o replacement \o ", default-features = false }"

WasmLine(version) ==
    LET replacement == IF version.tag = "Fixed"
                       THEN "version = \"" \o version.s \o "\""
                       ELSE "path = \"" \o version.s \o "wasm\""
    IN  "cranelift-wasm = { " \o replacement \o " }"

IsCodegenDecl_no_equals(line) == starts_with(line, "cranelift-codegen")

IsCodegenDecl(line) == starts_with(line, "cranelift-codegen =")

IsWasmDecl(line) == starts_with(line, "cranelift-wasm")

VersionLineMap(line, version) ==
    IF IsCodegenDecl(line) THEN CodegenLine(version)
    ELSE IF IsWasmDecl(line) THEN WasmLine(version)
    ELSE line

replace_cranelift_version(content, version) ==
    LET content_lines == split(content)
    IN  join([i \in 1..Len(content_lines) |-> VersionLineMap(content_lines[i], version)])

(***************************************************************************)
(* replace_commit_sha: the forward scan with the replace_in counter.       *)
(* replace_in is None (-1 here) or Some(x).                                *)
(***************************************************************************)
None == -1

IsPatchHeader(line) == starts_with(line, "[patch.crates-io.cranelift-")

RevLine(sha) == "rev = \"" \o sha \o "\""

ReplaceInStep(replace_in) == IF replace_in > 0 THEN replace_in - 1 ELSE None

ReplaceInAfter_off_by_one(line, counted) == IF IsPatchHeader(line) THEN 1 ELSE counted

ReplaceInAfter(line, counted) == IF IsPatchHeader(line) THEN 2 ELSE counted

RECURSIVE ShaScan(_, _, _)
ShaScan(lines, replace_in, sha) ==
    IF Len(lines) = 0 THEN <<>>
    ELSE LET line == Head(lines)
             counted == ReplaceInStep(replace_in)
             ret == IF counted = 0 THEN RevLine(sha) ELSE line
         IN  <<ret>> \o ShaScan(Tail(lines), ReplaceInAfter(line, counted), sha)

replace_commit_sha(content, sha) == join(ShaScan(split(content), None, sha))

(***************************************************************************)
(* The environment: the file system seen by canonicalize, the JSON         *)
(* documents the two hosts may answer with, and the output of the          *)
(* version-control, nproc, make, mach and test-harness processes.          *)
(***************************************************************************)
NoPath == ""

Canonicalize(p) ==
    CASE p \in {"/gecko", "/gecko/"} -> "/gecko"
      [] p = "/w" -> "/w"
      [] p = "/w\nx" -> "/w\nx"
      [] p \in {"/obj", "/obj/"} -> "/obj"
      [] p = "/" -> "/"
      [] OTHER -> NoPath

canonicalize_dir(s) ==
    LET p == Canonicalize(s)
    IN  IF ends_with(p, "/") THEN p ELSE p \o "/"

JsonNull == [t |-> "null", s |-> "null"]
JsonString(v) == [t |-> "string", s |-> v]

NotJson == [ok |-> FALSE, fields |-> <<>>]
JsonDoc(path, value) == [ok |-> TRUE, fields |-> (path :> value)]
EmptyJsonDoc == [ok |-> TRUE, fields |-> <<>>]

JsonParse(body) ==
    CASE body = "{\"crate\":{\"newest_version\":\"0.61.0\"}}" ->
            JsonDoc(<<"crate", "newest_version">>, JsonString("0.61.0"))
      [] body = "{\"crate\":{\"newest_version\":null}}" ->
            JsonDoc(<<"crate", "newest_version">>, JsonNull)
      [] body = "{\"crate\":{}}" -> EmptyJsonDoc
      [] body = "{\"sha\":\"1234567\"}" -> JsonDoc(<<"sha">>, JsonString("1234567"))
      [] body = "{\"message\":\"Not Found\"}" -> JsonDoc(<<"message">>, JsonString("Not Found"))
      [] OTHER -> NotJson

JsonIndex(doc, path) == IF path \in DOMAIN doc.fields THEN doc.fields[path] ELSE JsonNull

JsonToString(value) == value.s

TransportError == [sent |-> FALSE, body |-> ""]
Answer(body) == [sent |-> TRUE, body |-> body]

RegistryResponses ==
    {TransportError, Answer("<html>"), Answer("{\"crate\":{}}"),
     Answer("{\"crate\":{\"newest_version\":null}}"),
     Answer("{\"crate\":{\"newest_version\":\"0.61.0\"}}")}

HistoryResponses ==
    {TransportError, Answer("<html>"), Answer("{\"message\":\"Not Found\"}"),
     Answer("{\"sha\":\"1234567\"}")}

Resolved(value) == [ok |-> TRUE, value |-> value]
ResolveError == [ok |-> FALSE, value |-> ""]

get_cranelift_version(resp) ==
    IF ~resp.sent THEN ResolveError
    ELSE LET object == JsonParse(resp.body)
         IN  IF ~object.ok THEN ResolveError
             ELSE Resolved(JsonToString(JsonIndex(object, <<"crate", "newest_version">>)))

find_last_commit_sha(resp) ==
    IF ~resp.sent THEN ResolveError
    ELSE LET object == JsonParse(resp.body)
         IN  IF ~object.ok THEN ResolveError
             ELSE Resolved(JsonToString(JsonIndex(object, <<"sha">>)))

(***************************************************************************)
(* Process output: [started, success, stdout, stderr].                     *)
(***************************************************************************)
NotStarted == [started |-> FALSE, success |-> FALSE, stdout |-> "", stderr |-> ""]
Ran(success, stdout, stderr) ==
    [started |-> TRUE, success |-> success, stdout |-> stdout, stderr |-> stderr]

DiffText == "diff a/Cargo.toml b/Cargo.toml\n"

DiffOutputs(dirty) ==
    {NotStarted, Ran(FALSE, "", "abort: no repository found\n"),
     Ran(TRUE, IF dirty THEN DiffText ELSE "", ""),
     Ran(~dirty, IF dirty THEN DiffText ELSE "", "warning: could not read a file\n")}

\* What git commit -am and hg commit -m print, and exit 1, when no tracked file
\* is modified; git's report depends on whether untracked files are present.
GitNothing == "On branch main\nnothing to commit, working tree clean\n"
GitNothingAdded ==
    "On branch main\nUntracked files:\n\tthird_party/rust/new\n\nnothing added to commit but untracked files present (use \"git add\" to track)\n"
HgNothing == "nothing changed\n"

NothingToCommit(kind, untracked_files) ==
    IF kind = "hg" THEN HgNothing
    ELSE IF untracked_files THEN GitNothingAdded
    ELSE GitNothing

CommitOutputs(kind, dirty, untracked_files) ==
    IF dirty
    THEN {NotStarted, Ran(TRUE, IF kind = "git" THEN "[main 0a1b2c3] bump\n" ELSE "", ""),
          Ran(FALSE, "", IF kind = "git" THEN "fatal: unable to write new index file\n"
                                         ELSE "abort: no username supplied\n")}
    ELSE {NotStarted, Ran(FALSE, NothingToCommit(kind, untracked_files), "")}

Ok == [ok |-> TRUE, err |-> ""]
Err(msg) == [ok |-> FALSE, err |-> msg]

\* a byte string that String::from_utf8 rejects
InvalidUtf8 == "<bytes that are not UTF-8>"

\* String::from_utf8(bytes).unwrap_or(fallback.into())
from_utf8_or(bytes, fallback) == IF bytes = InvalidUtf8 THEN fallback ELSE bytes

GitCommit(output) ==
    IF ~output.started THEN Err("couldn't start git commit: ")
    ELSE IF ~output.success
         THEN LET stdout == from_utf8_or(output.stdout, "(stdout unavailable)")
                  stderr == from_utf8_or(output.stderr, "(stderr unavailable)")
              IN  IF contains(trim(stdout), "nothing to commit") THEN Ok
                  ELSE Err("git commit returned an error: " \o stdout \o " " \o stderr)
         ELSE Ok

HgCommit(output) ==
    IF ~output.started THEN Err("couldn't start hg commit: ")
    ELSE IF ~output.success
         THEN LET stdout == from_utf8_or(output.stdout, "(stdout unavailable)")
                  stderr == from_utf8_or(output.stderr, "(stderr unavailable)")
              IN  IF trim(stdout) = "nothing changed" THEN Ok
                  ELSE Err("hg commit returned an error: " \o stdout \o " " \o stderr)
         ELSE Ok

VcsCommit(kind, output) == IF kind = "git" THEN GitCommit(output) ELSE HgCommit(output)

has_diff_status_checked(output) ==
    IF ~output.started \/ ~output.success THEN [ok |-> FALSE, diff |-> FALSE]
    ELSE [ok |-> TRUE, diff |-> Len(output.stdout) # 0]

has_diff(output) ==
    IF ~output.started THEN [ok |-> FALSE, diff |-> FALSE]
    ELSE [ok |-> TRUE, diff |-> Len(output.stdout) # 0]

get_vcs_for_repo_git_first(found) ==
    IF found.git THEN "git"
    ELSE IF found.hg THEN "hg"
    ELSE "none"

get_vcs_for_repo(found) ==
    IF found.hg THEN "hg"
    ELSE IF found.git THEN "git"
    ELSE "none"

(***************************************************************************)
(* State.                                                                  *)
(***************************************************************************)
VARIABLES
    args,           \* env::args(), not yet consumed
    args0,          \* env::args() as the process was started
    pc,             \* position in main / run_bump / run_local / run_build / run_test
    command,        \* the COMMAND argument
    repo_path,      \* canonicalized repository path
    cwd,            \* the process's current directory
    markers,        \* which of .hg and .git are directories under the repository
    repo,           \* the backend get_vcs_for_repo selected
    nested,         \* content of js/src/wasm/cranelift/Cargo.toml
    toplevel,       \* content of Cargo.toml
    nested0,        \* content of the nested manifest when the process started
    toplevel0,      \* content of the top-level manifest when the process started
    head_nested,    \* nested manifest as of the last commit
    head_toplevel,  \* top-level manifest as of the last commit
    other_dirty,    \* other tracked files differ from the last commit
    untracked,      \* the working tree holds files that are not tracked
    version,        \* the VersionSpec in hand
    last_commit,    \* the resolved upstream commit id
    large_imports,  \* the flag parsed by run_bump
    build_path,     \* second path argument (wasmtime checkout, build directory)
    nproc,          \* the parallelism computed by run_build, as a decimal numeral
    trace,          \* external operations performed so far, in order
    exit_code,      \* process exit status (NotExited while running)
    error,          \* message of the error returned to main, if any
    passes          \* number of rewrites applied (rewrite specifications only)

vars == <<args, args0, pc, command, repo_path, cwd, markers, repo, nested, toplevel, nested0,
          toplevel0, head_nested, head_toplevel, other_dirty, untracked, version, last_commit,
          large_imports, build_path, nproc, trace, exit_code, error, passes>>

ctl == <<args, command, repo_path, build_path>>
tree == <<nested, toplevel, head_nested, head_toplevel, other_dirty, untracked>>
init0 == <<args0, nested0, toplevel0, markers, passes>>
resolved == <<version, last_commit, large_imports, nproc, repo, cwd>>

NotExited == -1
ExitOk == 0
ExitErr == 1
ExitPanic == 101
ExitUsage == 255

DefaultJobs == 8

Dirty == nested # head_nested \/ toplevel # head_toplevel \/ other_dirty

NoOutput == [started |-> FALSE, success |-> FALSE, stdout |-> "", stderr |-> ""]

Event(op, arg, n, ok, out) ==
    [op |-> op, arg |-> arg, n |-> n, ok |-> ok, out |-> out, dirty |-> Dirty]

ArgVectors ==
    {<<"baldrdashlift">>,
     <<"baldrdashlift", "frobnicate">>,
     <<"baldrdashlift", "bump">>,
     <<"baldrdashlift", "bump", "/nowhere">>,
     <<"baldrdashlift", "bump", "/gecko">>,
     <<"baldrdashlift", "bump", "/gecko/", "-a">>,
     <<"baldrdashlift", "bump", "/gecko", "--allow-large">>,
     <<"baldrdashlift", "bump", "/gecko", "--force">>,
     <<"baldrdashlift", "local", "/gecko">>,
     <<"baldrdashlift", "local", "/gecko", "/w">>,
     <<"baldrdashlift", "local", "/gecko", "/w\nx">>,
     <<"baldrdashlift", "build">>,
     <<"baldrdashlift", "build", "/obj">>,
     <<"baldrdashlift", "test", "/gecko">>,
     <<"baldrdashlift", "test", "/gecko", "/obj/">>,
     <<"baldrdashlift", "test", "/gecko", "/obj", "asm.js">>}

NestedOld ==
    "[dependencies]\ncranelift-codegen = { version = \"0.60.0\", default-features = false }\ncranelift-wasm = { version = \"0.60.0\" }\n"

NestedNew ==
    "[dependencies]\ncranelift-codegen = { version = \"0.61.0\", default-features = false }\ncranelift-wasm = { version = \"0.61.0\" }\n"

TopOld ==
    "[patch.crates-io.cranelift-codegen]\ngit = \"https://github.com/bytecodealliance/wasmtime\"\nrev = \"abcdef0\"\n"

TopNew ==
    "[patch.crates-io.cranelift-codegen]\ngit = \"https://github.com/bytecodealliance/wasmtime\"\nrev = \"1234567\"\n"

InitAt(at, spec, sha) ==
    /\ pc = at
    /\ args0 = args
    /\ command = ""
    /\ repo_path = NoPath
    /\ build_path = NoPath
    /\ cwd = "/"
    /\ repo = "none"
    /\ head_nested = nested
    /\ head_toplevel = toplevel
    /\ nested0 = nested
    /\ toplevel0 = toplevel
    /\ version = spec
    /\ last_commit = sha
    /\ large_imports = FALSE
    /\ nproc = ""
    /\ trace = <<>>
    /\ exit_code = NotExited
    /\ error = ""
    /\ passes = 0

Init ==
    /\ args \in ArgVectors
    /\ markers \in [hg : BOOLEAN, git : BOOLEAN]
    /\ other_dirty \in BOOLEAN
    /\ untracked \in BOOLEAN
    /\ nested \in {NestedOld, NestedNew}
    /\ toplevel \in {TopOld, TopNew}
    /\ InitAt("main", NoVersion, "")

(***************************************************************************)
(* Leaving the program: Ok(()) from main, Err(e) from main, a panic, and   *)
(* show_usage's process::exit(-1).                                         *)
(***************************************************************************)
Return(code, msg) ==
    /\ pc' = IF code = ExitOk THEN "done" ELSE "failed"
    /\ exit_code' = code
    /\ error' = msg

Goto(next) ==
    /\ pc' = next
    /\ UNCHANGED <<exit_code, error>>

show_usage == Return(ExitUsage, "usage: PROGRAM COMMAND")

(***************************************************************************)
(* main and argument handling.                                             *)
(***************************************************************************)
Main ==
    /\ pc = "main"
    /\ IF Len(args) < 2
       THEN /\ show_usage
            /\ args' = Tail(args)
            /\ UNCHANGED command
       ELSE /\ command' = args[2]
            /\ args' = SubSeq(args, 3, Len(args))
            /\ CASE args[2] = "build" -> Goto("build_arg")
                 [] args[2] \in {"bump", "local", "test"} -> Goto("get_repo_arg")
                 [] OTHER -> show_usage
    /\ UNCHANGED <<repo_path, build_path, tree, init0, resolved, trace>>

get_repo_arg ==
    /\ pc = "get_repo_arg"
    /\ IF Len(args) = 0
       THEN /\ show_usage
            /\ UNCHANGED <<args, repo_path>>
       ELSE /\ args' = Tail(args)
            /\ IF Canonicalize(Head(args)) = NoPath
               THEN /\ Return(ExitPanic, "Could not canonicalize path")
                    /\ UNCHANGED repo_path
               ELSE /\ repo_path' = canonicalize_dir(Head(args))
                    /\ CASE command = "bump" -> Goto("set_cwd")
                         [] command = "local" -> Goto("wasmtime_arg")
                         [] OTHER -> Goto("test_build_arg")
    /\ UNCHANGED <<command, build_path, tree, init0, resolved, trace>>

wasmtime_arg ==
    /\ pc = "wasmtime_arg"
    /\ IF Len(args) = 0
       THEN /\ Return(ExitErr, "usage of local: local GECKO_REPO_PATH WASMTIME_REPO_PATH")
            /\ UNCHANGED <<args, build_path>>
       ELSE /\ args' = Tail(args)
            /\ IF Canonicalize(Head(args)) = NoPath
               THEN /\ Return(ExitPanic, "Could not canonicalize path")
                    /\ UNCHANGED build_path
               ELSE /\ build_path' = canonicalize_dir(Head(args)) \o "cranelift/"
                    /\ Goto("set_cwd")
    /\ UNCHANGED <<command, repo_path, tree, init0, resolved, trace>>

(***************************************************************************)
(* check_gecko_repo: set_current_dir, get_vcs_for_repo, has_diff.          *)
(***************************************************************************)
set_current_dir ==
    /\ pc = "set_cwd"
    /\ \E ok \in BOOLEAN :
          /\ trace' = Append(trace, Event("set_current_dir", repo_path, 0, ok, NoOutput))
          /\ IF ok
             THEN cwd' = repo_path /\ Goto("detect")
             ELSE UNCHANGED cwd /\ Return(ExitErr, "No such file or directory")
    /\ UNCHANGED <<ctl, tree, init0, version, last_commit, large_imports, nproc, repo>>

detect ==
    /\ pc = "detect"
    /\ repo' = get_vcs_for_repo(markers)
    /\ trace' = Append(trace, Event("get_vcs_for_repo", repo', 0, repo' # "none", NoOutput))
    /\ IF repo' = "none"
       THEN Return(ExitErr, "Not a git or Mercurial repository: " \o repo_path)
       ELSE Goto("has_diff")
    /\ UNCHANGED <<ctl, tree, init0, version, last_commit, large_imports, nproc, cwd>>

check_gecko_repo_no_abort(r) == IF ~r.ok THEN "could not start" ELSE "clean"

check_gecko_repo(r) ==
    IF ~r.ok THEN "could not start"
    ELSE IF r.diff THEN "diff isn't empty"
    ELSE "clean"

check_clean ==
    /\ pc = "has_diff"
    /\ \E out \in DiffOutputs(Dirty) :
          LET r == has_diff(out)
          IN  /\ trace' = Append(trace, Event("has_diff", repo, 0, r.ok /\ ~r.diff, out))
              /\ CASE check_gecko_repo(r) = "could not start" ->
                        Return(ExitErr, "Could not start " \o repo \o " diff: ")
                   [] check_gecko_repo(r) = "diff isn't empty" ->
                        Return(ExitErr, "Diff isn't empty! aborting, please make sure the repository is clean before running this script")
                   [] OTHER ->
                        IF command = "bump" THEN Goto("bump_option") ELSE Goto("replace_version")
    /\ UNCHANGED <<ctl, tree, init0, resolved>>

(***************************************************************************)
(* run_bump up to the first commit.                                        *)
(***************************************************************************)
bump_option_lenient ==
    /\ pc = "bump_option"
    /\ IF Len(args) = 0
       THEN /\ large_imports' = FALSE
            /\ Goto("get_version")
            /\ UNCHANGED args
       ELSE /\ args' = Tail(args)
            /\ large_imports' = (Head(args) \in {"--allow-large", "-a"})
            /\ Goto("get_version")
    /\ UNCHANGED <<command, repo_path, build_path, tree, init0, version, last_commit,
                   nproc, repo, cwd, trace>>

bump_option ==
    /\ pc = "bump_option"
    /\ IF Len(args) = 0
       THEN /\ large_imports' = FALSE
            /\ Goto("get_version")
            /\ UNCHANGED args
       ELSE /\ args' = Tail(args)
            /\ IF Head(args) \in {"--allow-large", "-a"}
               THEN large_imports' = TRUE /\ Goto("get_version")
               ELSE UNCHANGED large_imports /\ Return(ExitErr, "unknown bump option: " \o Head(args))
    /\ UNCHANGED <<command, repo_path, build_path, tree, init0, version, last_commit,
                   nproc, repo, cwd, trace>>

resolve_version ==
    /\ pc = "get_version"
    /\ \E resp \in RegistryResponses :
          LET r == get_cranelift_version(resp)
          IN  /\ trace' = Append(trace, Event("get_cranelift_version", resp.body, 0, r.ok, NoOutput))
              /\ IF r.ok
                 THEN version' = Fixed(r.value) /\ Goto("replace_version")
                 ELSE UNCHANGED version /\ Return(ExitErr, "registry request failed")
    /\ UNCHANGED <<ctl, tree, init0, last_commit, large_imports, nproc, repo, cwd>>

resolve_commit_restoring ==
    /\ pc = "find_sha"
    /\ \E resp \in HistoryResponses :
          LET r == find_last_commit_sha(resp)
          IN  /\ trace' = Append(trace, Event("find_last_commit_sha", resp.body, 0, r.ok, NoOutput))
              /\ IF r.ok
                 THEN last_commit' = r.value /\ Goto("replace_sha") /\ UNCHANGED nested
                 ELSE /\ UNCHANGED last_commit
                      /\ nested' = nested0
                      /\ Return(ExitErr, "history request failed")
    /\ UNCHANGED <<ctl, toplevel, head_nested, head_toplevel, other_dirty, untracked, init0,
                   version, large_imports, nproc, repo, cwd>>

resolve_commit ==
    /\ pc = "find_sha"
    /\ \E resp \in HistoryResponses :
          LET r == find_last_commit_sha(resp)
          IN  /\ trace' = Append(trace, Event("find_last_commit_sha", resp.body, 0, r.ok, NoOutput))
              /\ IF r.ok
                 THEN last_commit' = r.value /\ Goto("replace_sha")
                 ELSE UNCHANGED last_commit /\ Return(ExitErr, "history request failed")
    /\ UNCHANGED <<ctl, tree, init0, version, large_imports, nproc, repo, cwd>>

(***************************************************************************)
(* The two manifest rewrites as steps of the pipeline: File::open and      *)
(* read_to_string, the transformation, File::create and write_all, each    *)
(* of which panics on failure.  A failed open or read panics before the    *)
(* new content is computed; File::create truncates, so a failed write_all  *)
(* leaves a prefix of the new content.                                     *)
(***************************************************************************)
IoOutcomes == {"ok", "open_failed", "read_failed", "create_failed", "write_failed"}

ReadFailures == {"open_failed", "read_failed"}

PartialWrites(new_content) == {"", SubSeq(new_content, 1, Len(new_content) \div 2)}

Written(io, old_content, new_content) ==
    CASE io = "ok" -> {new_content}
      [] io = "write_failed" -> PartialWrites(new_content)
      [] OTHER -> {old_content}

bump_version_spec_always_fixed == IF command = "local" THEN Fixed(build_path) ELSE version

bump_version_spec == IF command = "local" THEN Path(build_path) ELSE version

patch_nested ==
    /\ pc = "replace_version"
    /\ version' = bump_version_spec
    /\ \/ \E io \in ReadFailures :
             /\ nested' = nested
             /\ trace' = Append(trace, Event("replace_cranelift_version", io, 0, FALSE, NoOutput))
             /\ Return(ExitPanic, "couldn't rewrite Cranelift cargo file")
       \/ \E io \in IoOutcomes \ ReadFailures :
             \E w \in Written(io, nested, replace_cranelift_version(nested, version')) :
                /\ nested' = w
                /\ trace' = Append(trace, Event("replace_cranelift_version", io, 0, io = "ok", NoOutput))
                /\ IF io # "ok" THEN Return(ExitPanic, "couldn't rewrite Cranelift cargo file")
                   ELSE IF command = "bump" THEN Goto("find_sha")
                   ELSE Goto("commit_bump")
    /\ UNCHANGED <<ctl, toplevel, head_nested, head_toplevel, other_dirty, untracked, init0,
                   last_commit, large_imports, nproc, repo, cwd>>

patch_toplevel ==
    /\ pc = "replace_sha"
    /\ \/ \E io \in ReadFailures :
             /\ toplevel' = toplevel
             /\ trace' = Append(trace, Event("replace_commit_sha", io, 0, FALSE, NoOutput))
             /\ Return(ExitPanic, "couldn't rewrite top-level cargo file")
       \/ \E io \in IoOutcomes \ ReadFailures :
             \E w \in Written(io, toplevel, replace_commit_sha(toplevel, last_commit)) :
                /\ toplevel' = w
                /\ trace' = Append(trace, Event("replace_commit_sha", io, 0, io = "ok", NoOutput))
                /\ IF io # "ok" THEN Return(ExitPanic, "couldn't rewrite top-level cargo file")
                   ELSE Goto("commit_bump")
    /\ UNCHANGED <<ctl, nested, head_nested, head_toplevel, other_dirty, untracked, init0,
                   resolved>>

(***************************************************************************)
(* repo.commit(msg) at the two call sites of run_bump / run_local.         *)
(***************************************************************************)
BumpMessage ==
    IF command = "bump" THEN "Bug XXX - Bump Cranelift to " \o last_commit \o "; r?"
    ELSE "No bug - do not check in - use local Cranelift"

VendorMessage ==
    IF command = "bump" THEN "Bug XXX - Output of mach vendor rust; r?"
    ELSE "No bug - do not check in - result of mach vendor rust"

commit_step_retrying(at, msg, next) ==
    /\ pc = at
    /\ \E out \in CommitOutputs(repo, Dirty, untracked) :
          LET r == VcsCommit(repo, out)
          IN  /\ trace' = Append(trace, Event("commit", msg, 0, r.ok, out))
              /\ IF out.started /\ out.success
                 THEN /\ head_nested' = nested
                      /\ head_toplevel' = toplevel
                      /\ other_dirty' = FALSE
                 ELSE UNCHANGED <<head_nested, head_toplevel, other_dirty>>
              /\ IF ~r.ok THEN Goto(at)
                 ELSE IF next = "done" THEN Return(ExitOk, "")
                 ELSE Goto(next)
    /\ UNCHANGED <<ctl, nested, toplevel, untracked, init0, resolved>>

commit_step(at, msg, next) ==
    /\ pc = at
    /\ \E out \in CommitOutputs(repo, Dirty, untracked) :
          LET r == VcsCommit(repo, out)
          IN  /\ trace' = Append(trace, Event("commit", msg, 0, r.ok, out))
              /\ IF out.started /\ out.success
                 THEN /\ head_nested' = nested
                      /\ head_toplevel' = toplevel
                      /\ other_dirty' = FALSE
                 ELSE UNCHANGED <<head_nested, head_toplevel, other_dirty>>
              /\ IF ~r.ok THEN Return(ExitErr, r.err)
                 ELSE IF next = "done" THEN Return(ExitOk, "")
                 ELSE Goto(next)
    /\ UNCHANGED <<ctl, nested, toplevel, untracked, init0, resolved>>

commit_bump == commit_step("commit_bump", BumpMessage, "vendor")

commit_vendor == commit_step("commit_vendor", VendorMessage, "done")

(***************************************************************************)
(* mach_vendor_rust(allow_large).                                          *)
(***************************************************************************)
LargeFlag == "--build-peers-said-large-imports-were-ok"

mach_vendor_rust ==
    /\ pc = "vendor"
    /\ LET allow_large == IF command = "bump" THEN large_imports ELSE FALSE
       IN  \E started \in BOOLEAN, waited \in BOOLEAN, success \in BOOLEAN,
              changed \in BOOLEAN, added \in BOOLEAN :
              /\ (~started => ~waited /\ ~success /\ ~changed /\ ~added)
              /\ (~waited => ~success)
              /\ trace' = Append(trace, Event("mach vendor rust", IF allow_large THEN LargeFlag ELSE "",
                                              0, success,
                                              IF started THEN Ran(success, "", "") ELSE NotStarted))
              /\ other_dirty' = (other_dirty \/ changed)
              /\ untracked' = (untracked \/ added)
              /\ IF ~started THEN Return(ExitPanic, "couldn't run mach vendor rust")
                 ELSE IF ~waited THEN Return(ExitErr, "wait failed")
                 ELSE IF ~success THEN Return(ExitErr, "Error when running mach vendor rust")
                 ELSE Goto("commit_vendor")
    /\ UNCHANGED <<ctl, nested, toplevel, head_nested, head_toplevel, init0, resolved>>

(***************************************************************************)
(* run_build: the build directory argument, nproc, make.                   *)
(***************************************************************************)
U32Max == "4294967295"

DecimalDigits == "0123456789"

IsDigit(c) == \E d \in 1..10 : Char(DecimalDigits, d) = c

DigitValue(c) == (CHOOSE d \in 1..10 : Char(DecimalDigits, d) = c) - 1

RECURSIVE StripZeros(_)
StripZeros(s) == IF Len(s) > 1 /\ Char(s, 1) = "0" THEN StripZeros(SubSeq(s, 2, Len(s))) ELSE s

\* a < b for two digit strings of the same length
RECURSIVE DigitsLess(_, _)
DigitsLess(a, b) ==
    IF Len(a) = 0 THEN FALSE
    ELSE IF Char(a, 1) # Char(b, 1) THEN DigitValue(Char(a, 1)) < DigitValue(Char(b, 1))
    ELSE DigitsLess(SubSeq(a, 2, Len(a)), SubSeq(b, 2, Len(b)))

FitsU32(digits) ==
    \/ Len(digits) < Len(U32Max)
    \/ Len(digits) = Len(U32Max) /\ ~DigitsLess(U32Max, digits)

\* str::parse::<u32>; the value is kept as its decimal numeral
parse_u32(s) ==
    LET digits == IF starts_with(s, "+") THEN SubSeq(s, 2, Len(s)) ELSE s
    IN  IF Len(digits) = 0 \/ \E i \in 1..Len(digits) : ~IsDigit(Char(digits, i))
        THEN [ok |-> FALSE, value |-> ""]
        ELSE IF ~FitsU32(StripZeros(digits)) THEN [ok |-> FALSE, value |-> ""]
        ELSE [ok |-> TRUE, value |-> StripZeros(digits)]

RECURSIVE ToDecimal(_)
ToDecimal(n) ==
    IF n < 10 THEN Char(DecimalDigits, n + 1)
    ELSE ToDecimal(n \div 10) \o Char(DecimalDigits, (n % 10) + 1)

NprocOutputs ==
    {NotStarted, Ran(TRUE, "4\n", ""), Ran(TRUE, " 16 \n", ""), Ran(TRUE, "4294967296\n", ""),
     Ran(TRUE, "4294967295\n", ""), Ran(TRUE, "+08\n", ""),
     Ran(TRUE, "", ""), Ran(FALSE, "", "nproc: cannot determine\n"), Ran(TRUE, "four\n", ""),
     Ran(TRUE, InvalidUtf8, "")}

build_arg ==
    /\ pc = "build_arg"
    /\ IF Len(args) = 0
       THEN /\ Return(ExitErr, "usage of build: build PATH_TO_BUILD_DIR")
            /\ UNCHANGED <<args, build_path, cwd, trace>>
       ELSE /\ args' = Tail(args)
            /\ IF Canonicalize(Head(args)) = NoPath
               THEN /\ Return(ExitPanic, "Could not canonicalize path")
                    /\ UNCHANGED <<build_path, cwd, trace>>
               ELSE /\ build_path' = canonicalize_dir(Head(args))
                    /\ \E ok \in BOOLEAN :
                          /\ trace' = Append(trace, Event("set_current_dir", build_path', 0, ok, NoOutput))
                          /\ IF ok THEN cwd' = build_path' /\ Goto("nproc")
                             ELSE UNCHANGED cwd /\ Return(ExitPanic, "couldn't set cwd to build dir")
    /\ UNCHANGED <<command, repo_path, tree, init0, version, last_commit, large_imports,
                   nproc, repo>>

query_nproc ==
    /\ pc = "nproc"
    /\ \E out \in NprocOutputs :
          LET parsed == parse_u32(retain_non_whitespace(out.stdout))
              ok == ~out.started \/ (out.stdout # InvalidUtf8 /\ parsed.ok)
          IN  /\ trace' = Append(trace, Event("nproc", "", 0, ok, out))
              /\ IF ~out.started THEN nproc' = ToDecimal(DefaultJobs) /\ Goto("make")
                 ELSE IF out.stdout = InvalidUtf8
                      THEN UNCHANGED nproc /\ Return(ExitErr, "invalid utf-8 sequence")
                 ELSE IF ~parsed.ok
                      THEN UNCHANGED nproc /\ Return(ExitErr, "invalid digit found in string")
                 ELSE nproc' = parsed.value /\ Goto("make")
    /\ UNCHANGED <<ctl, tree, init0, version, last_commit, large_imports, repo, cwd>>

child_step(at, op, arg, n, failure) ==
    /\ pc = at
    /\ \E started \in BOOLEAN, waited \in BOOLEAN, success \in BOOLEAN :
          /\ (~started => ~waited)
          /\ (~waited => ~success)
          /\ trace' = Append(trace, Event(op, arg, n, success,
                                          IF started THEN Ran(success, "", "") ELSE NotStarted))
          /\ IF ~started THEN Return(ExitPanic, "couldn't run " \o op)
             ELSE IF ~waited THEN Return(ExitErr, "wait failed")
             ELSE IF ~success THEN Return(ExitErr, failure)
             ELSE Return(ExitOk, "")

run_make ==
    /\ child_step("make", "make", "-sj" \o nproc, 0, "Error when running make")
    /\ UNCHANGED <<ctl, tree, init0, resolved>>

(***************************************************************************)
(* run_test: the build directory argument and the test harness.            *)
(***************************************************************************)
CRANELIFT_JS_SHELL_ARGS == "--no-wasm-simd --shared-memory=off --wasm-compiler=cranelift"

test_build_arg ==
    /\ pc = "test_build_arg"
    /\ IF Len(args) = 0
       THEN /\ Return(ExitErr, "usage of test: test GECKO_DIR BUILD_DIR")
            /\ UNCHANGED <<args, build_path>>
       ELSE /\ args' = Tail(args)
            /\ IF Canonicalize(Head(args)) = NoPath
               THEN /\ Return(ExitPanic, "Could not canonicalize path")
                    /\ UNCHANGED build_path
               ELSE /\ build_path' = canonicalize_dir(Head(args)) \o "dist/bin/js"
                    /\ Goto("test_run")
    /\ UNCHANGED <<command, repo_path, tree, init0, resolved, trace>>

run_jit_tests ==
    /\ child_step("test_run", repo_path \o "js/src/jit-test/jit_test.py",
                  build_path \o " --args \"" \o CRANELIFT_JS_SHELL_ARGS \o "\" "
                      \o (IF Len(args) = 0 THEN "wasm" ELSE Head(args)),
                  0, "Test failures!")
    /\ args' = IF Len(args) = 0 THEN args ELSE Tail(args)
    /\ UNCHANGED <<command, repo_path, build_path, tree, init0, resolved>>

(***************************************************************************)
(* The program.                                                            *)
(***************************************************************************)
Next ==
    \/ Main
    \/ get_repo_arg
    \/ wasmtime_arg
    \/ set_current_dir
    \/ detect
    \/ check_clean
    \/ bump_option
    \/ resolve_version
    \/ patch_nested
    \/ resolve_commit
    \/ patch_toplevel
    \/ commit_bump
    \/ mach_vendor_rust
    \/ commit_vendor
    \/ build_arg
    \/ query_nproc
    \/ run_make
    \/ test_build_arg
    \/ run_jit_tests

Spec == Init /\ [][Next]_vars

\* The process runs until main returns: a step that can be taken is taken,
\* every call made to the outside having returned.
FairSpec == Init /\ [][Next]_vars /\ WF_vars(Next)

(***************************************************************************)
(* The two rewrites on their own: the manifest is any sequence of at most  *)
(* MaxNestedLines (MaxTopLines) lines drawn from a few kinds of line, and  *)
(* the nested rewrite is applied to the file up to MaxPasses times, the    *)
(* top-level rewrite once.                                                 *)
(***************************************************************************)
LineSeqs(alphabet, n) == UNION {[1..k -> alphabet] : k \in 1..n}

NestedLineKinds ==
    {"cranelift-codegen = { version = \"0.60.0\", default-features = false }",
     "cranelift-wasm = { version = \"0.60.0\" }",
     "cranelift-codegen-shared = \"0.60.0\"",
     " cranelift-wasm = \"0.60.0\"",
     "[dependencies]",
     ""}

VersionSpecs == {Fixed("0.61.0"), Fixed("null"), Path("/w/cranelift/"), Path("/w\nx/cranelift/")}

TopLineKinds ==
    {"[patch.crates-io.cranelift-codegen]",
     "[patch.crates-io.cranelift-wasm]",
     "git = \"https://github.com/b/wasmtime\"",
     "rev = \"abcdef0\""}

Shas == {"1234567"}

InitNested ==
    /\ args = <<>>
    /\ markers = [hg |-> TRUE, git |-> FALSE]
    /\ other_dirty = FALSE
    /\ untracked = FALSE
    /\ nested \in {join(q) : q \in LineSeqs(NestedLineKinds, MaxNestedLines)}
    /\ toplevel = TopOld
    /\ \E spec \in VersionSpecs : InitAt("rewrite", spec, "")

InitTop ==
    /\ args = <<>>
    /\ markers = [hg |-> TRUE, git |-> FALSE]
    /\ other_dirty = FALSE
    /\ untracked = FALSE
    /\ nested = NestedOld
    /\ toplevel \in {join(q) : q \in LineSeqs(TopLineKinds, MaxTopLines)}
    /\ \E sha \in Shas : InitAt("rewrite", NoVersion, sha)

rewrite_nested ==
    /\ pc = "rewrite"
    /\ passes < MaxPasses
    /\ nested' = replace_cranelift_version(nested, version)
    /\ passes' = passes + 1
    /\ UNCHANGED <<ctl, pc, exit_code, error, toplevel, head_nested, head_toplevel, other_dirty, untracked,
                   args0, nested0, toplevel0, markers, resolved, trace>>

rewrite_toplevel ==
    /\ pc = "rewrite"
    /\ passes = 0
    /\ toplevel' = replace_commit_sha(toplevel, last_commit)
    /\ passes' = passes + 1
    /\ UNCHANGED <<ctl, pc, exit_code, error, nested, head_nested, head_toplevel, other_dirty, untracked,
                   args0, nested0, toplevel0, markers, resolved, trace>>

SpecNested == InitNested /\ [][rewrite_nested]_vars

SpecTop == InitTop /\ [][rewrite_toplevel]_vars

(***************************************************************************)
(* repo.commit(msg) on its own: one call on either backend, the commit     *)
(* process answering with any of a few exit statuses and outputs.          *)
(***************************************************************************)
\* hg commit when nothing is modified and a tracked file is gone from disk
HgNothingMissing == "nothing changed (1 missing files, see 'hg status')\n"

CommitStdouts ==
    {"", GitNothing, GitNothingAdded, HgNothing, HgNothingMissing, "[main 0a1b2c3] bump\n",
     InvalidUtf8}

CommitStderrs ==
    {"", "fatal: unable to write new index file\n", "abort: no username supplied\n",
     InvalidUtf8}

CommitProcessOutputs ==
    {NotStarted} \cup {Ran(success, stdout, stderr) :
                          success \in BOOLEAN, stdout \in CommitStdouts, stderr \in CommitStderrs}

InitCommit ==
    /\ args = <<>>
    /\ \E kind \in {"git", "hg"} : markers = [hg |-> kind = "hg", git |-> kind = "git"]
    /\ other_dirty \in BOOLEAN
    /\ untracked = FALSE
    /\ nested = NestedOld
    /\ toplevel = TopOld
    /\ InitAt("commit", NoVersion, "")

commit ==
    /\ pc = "commit"
    /\ repo' = get_vcs_for_repo(markers)
    /\ \E out \in CommitProcessOutputs :
          LET r == VcsCommit(repo', out)
          IN  /\ trace' = Append(trace, Event("commit", "msg", 0, r.ok, out))
              /\ error' = r.err
              /\ pc' = "returned"
    /\ UNCHANGED <<ctl, tree, init0, version, last_commit, large_imports, nproc, cwd,
                   exit_code>>

SpecCommit == InitCommit /\ [][commit]_vars

(***************************************************************************)
(* Reading the trace.                                                      *)
(***************************************************************************)
Ops(op) == {i \in 1..Len(trace) : trace[i].op = op}

MutatingOps == {"replace_cranelift_version", "replace_commit_sha", "commit", "mach vendor rust"}

Mutations == {i \in 1..Len(trace) : trace[i].op \in MutatingOps}

Pipeline == command \in {"bump", "local"}

ManifestsUntouched == nested = nested0 /\ toplevel = toplevel0

\* has_diff ran and reported a difference, or could not be started
DiffRefused == \E i \in Ops("has_diff") : ~trace[i].ok

DetectionFailed == \E i \in Ops("get_vcs_for_repo") : ~trace[i].ok

(***************************************************************************)
(* C1: in bump and local, a manifest write, a commit or a vendor run only  *)
(* ever follows a has_diff check that returned false; when has_diff        *)
(* returns true or an error, or detection fails, the run is Failed with    *)
(* both manifests as they were at the start.                               *)
(***************************************************************************)
C1_CleanBeforeMutation ==
    Pipeline =>
        /\ \A i \in Mutations : \E j \in Ops("has_diff") : j < i /\ trace[j].ok
        /\ ~ManifestsUntouched => \E j \in Ops("has_diff") : trace[j].ok
        /\ (DiffRefused \/ DetectionFailed) =>
              pc = "failed" /\ ManifestsUntouched /\ Mutations = {}

C1_Witness ==
    /\ Pipeline
    /\ pc = "failed"
    /\ \E i \in Ops("has_diff") : Len(trace[i].out.stdout) > 0
    /\ Dirty

(***************************************************************************)
(* C2: in bump, no manifest is patched before both the published version   *)
(* and the upstream commit id have been resolved; a run in which either    *)
(* resolution fails leaves both manifests unmodified.                      *)
(***************************************************************************)
Resolutions == Ops("get_cranelift_version") \cup Ops("find_last_commit_sha")

Patches == Ops("replace_cranelift_version") \cup Ops("replace_commit_sha")

C2_BothResolvedBeforePatch ==
    command = "bump" =>
        /\ \A i \in Patches :
              /\ \E j \in Ops("get_cranelift_version") : j < i /\ trace[j].ok
              /\ \E j \in Ops("find_last_commit_sha") : j < i /\ trace[j].ok
        /\ (\E j \in Resolutions : ~trace[j].ok) => ManifestsUntouched

(***************************************************************************)
(* C3: in bump and local the stages run in the order CheckClean,           *)
(* ResolveVersionSpec, PatchManifests, CommitBump, RunVendor,              *)
(* CommitVendor, each at most once, and nothing runs after a stage failed. *)
(***************************************************************************)
StageRank(i) ==
    CASE trace[i].op \in {"set_current_dir", "get_vcs_for_repo", "has_diff"} -> 1
      [] trace[i].op \in {"get_cranelift_version", "find_last_commit_sha"} -> 2
      [] trace[i].op \in {"replace_cranelift_version", "replace_commit_sha"} -> 3
      [] trace[i].op = "commit" ->
            IF \E j \in Ops("mach vendor rust") : j < i THEN 6 ELSE 4
      [] trace[i].op = "mach vendor rust" -> 5
      [] OTHER -> 0

C3_StageOrder ==
    Pipeline =>
        /\ \A i, j \in 1..Len(trace) : i < j => StageRank(i) <= StageRank(j)
        /\ \A i, j \in 1..Len(trace) :
              i < j /\ StageRank(i) \in {4, 5, 6} => StageRank(i) < StageRank(j)
        /\ \A i \in 1..Len(trace) : ~trace[i].ok => i = Len(trace) /\ pc = "failed"
        /\ pc \in {"done", "failed"} => exit_code # NotExited

(***************************************************************************)
(* C5: commit is idempotent for both backends: a commit invoked when no    *)
(* tracked file changed since the last commit is recognised as a no-op     *)
(* and returns Ok.                                                         *)
(***************************************************************************)
C5_CommitIdempotent ==
    \A i \in Ops("commit") :
        trace[i].out.started /\ ~trace[i].dirty => trace[i].ok

(***************************************************************************)
(* C6: a response that lacks the newest-version field (or the commit id    *)
(* field), or carries something other than a string there, makes the       *)
(* resolver fail, and bump ends in Failed at that point.                   *)
(***************************************************************************)
LacksField(body, path) ==
    JsonParse(body).ok /\ JsonIndex(JsonParse(body), path).t # "string"

C6_MissingFieldIsError ==
    \A i \in 1..Len(trace) :
        \/ trace[i].op = "get_cranelift_version"
              /\ LacksField(trace[i].arg, <<"crate", "newest_version">>)
        \/ trace[i].op = "find_last_commit_sha" /\ LacksField(trace[i].arg, <<"sha">>)
        => ~trace[i].ok /\ pc = "failed" /\ i = Len(trace)

(***************************************************************************)
(* C9: detection probes .hg first and .git second and returns the first    *)
(* match, so a directory with both markers is always a Mercurial           *)
(* repository; with neither marker it fails with the not-a-repository      *)
(* error and no has_diff, write, commit or vendor step follows.            *)
(***************************************************************************)
C9_DetectionPrecedence ==
    \A i \in Ops("get_vcs_for_repo") :
        /\ markers.hg => trace[i].arg = "hg" /\ trace[i].ok
        /\ ~markers.hg /\ markers.git => trace[i].arg = "git" /\ trace[i].ok
        /\ ~markers.hg /\ ~markers.git =>
              /\ ~trace[i].ok
              /\ i = Len(trace)
              /\ pc = "failed"
              /\ starts_with(error, "Not a git or Mercurial repository: ")
              /\ Ops("has_diff") = {}
              /\ Mutations = {}
        /\ repo = trace[i].arg
        /\ \A j \in Ops("has_diff") : trace[j].arg = repo

C9_Witness ==
    /\ markers.hg
    /\ markers.git
    /\ repo = "hg"
    /\ Ops("has_diff") # {}

(***************************************************************************)
(* C10: in build, the parallelism is the default 8 whenever nproc cannot   *)
(* be run or its output is not a number, and make is still run with it.    *)
(***************************************************************************)
C10_NprocFallback ==
    \A i \in Ops("nproc") :
        LET out == trace[i].out
        IN  \/ ~out.started
            \/ out.stdout = InvalidUtf8
            \/ ~parse_u32(retain_non_whitespace(out.stdout)).ok
            => /\ nproc = ToDecimal(DefaultJobs)
               /\ pc = "make" \/ Ops("make") # {}

(***************************************************************************)
(* C4 (as claimed): the top-level rewrite replaces exactly one line, the   *)
(* line two after the matched header, and no other line differs from the   *)
(* input, however many other lines contain similar text.  Stated for       *)
(* manifests that follow the convention: every header is followed by two   *)
(* lines that are not headers.                                             *)
(***************************************************************************)
TopIn == split(toplevel0)

TopOut == split(toplevel)

Conventional(lines) ==
    /\ \E h \in 1..Len(lines) : IsPatchHeader(lines[h])
    /\ \A h \in 1..Len(lines) :
          IsPatchHeader(lines[h]) =>
              /\ h + 2 <= Len(lines)
              /\ ~IsPatchHeader(lines[h + 1])
              /\ ~IsPatchHeader(lines[h + 2])

IsPinPosition(lines, i) ==
    i > 2 /\ IsPatchHeader(lines[i - 2]) /\ ~IsPatchHeader(lines[i - 1])

C7_FixedPoint ==
    passes >= 2 => nested = replace_cranelift_version(nested0, version)

(***************************************************************************)
(* C7 (amended): for every manifest and every VersionSpec whose version    *)
(* or path contains no line feed, rewriting the nested manifest twice      *)
(* gives what rewriting it once gives.                                     *)
(***************************************************************************)
OneLine(spec) == ~contains(spec.s, "\n")

C7_FixedPointOneLine ==
    passes >= 2 /\ OneLine(version) => nested = replace_cranelift_version(nested0, version)

C7_Witness ==
    /\ passes = 2
    /\ OneLine(version)
    /\ nested # nested0
    /\ \E i \in 1..Len(split(nested0)) : starts_with(split(nested0)[i], "cranelift-codegen =")
    /\ \E i \in 1..Len(split(nested0)) : starts_with(split(nested0)[i], "cranelift-wasm")

(***************************************************************************)
(* C8 (as claimed): the nested rewrite maps each line on its own: a line   *)
(* beginning with the primary key becomes the inline declaration with the  *)
(* version or the path and default-features = false, a line beginning      *)
(* with the companion key the same without that attribute, any other line  *)
(* is unchanged, and the file keeps its number and order of lines.         *)
(***************************************************************************)
NestedIn == split(nested0)

NestedOut == split(nested)

ExpectedLine(line) ==
    IF starts_with(line, "cranelift-codegen =")
    THEN IF version.tag = "Fixed"
         THEN "cranelift-codegen = { version = \"" \o version.s \o "\", default-features = false }"
         ELSE "cranelift-codegen = { path = \"" \o version.s \o "codegen\", default-features = false }"
    ELSE IF starts_with(line, "cranelift-wasm")
    THEN IF version.tag = "Fixed"
         THEN "cranelift-wasm = { version = \"" \o version.s \o "\" }"
         ELSE "cranelift-wasm = { path = \"" \o version.s \o "wasm\" }"
    ELSE line

PerLineMapped ==
    LET lines == NestedIn
    IN  NestedOut = [i \in 1..Len(lines) |-> ExpectedLine(lines[i])]

C8_PerLineMap == passes = 1 => PerLineMapped

(***************************************************************************)
(* C8 (amended): the same, for a VersionSpec whose version or path         *)
(* contains no line feed.                                                  *)
(***************************************************************************)
C8_PerLineMapOneLine == passes = 1 /\ OneLine(version) => PerLineMapped

C8_Witness ==
    /\ passes = 1
    /\ version.tag = "Path"
    /\ OneLine(version)
    /\ \E i, j, k \in 1..Len(NestedIn) :
          /\ starts_with(NestedIn[i], "cranelift-codegen =") /\ NestedOut[i] # NestedIn[i]
          /\ starts_with(NestedIn[j], "cranelift-wasm") /\ NestedOut[j] # NestedIn[j]
          /\ starts_with(NestedIn[k], "cranelift-codegen-shared") /\ NestedOut[k] = NestedIn[k]

(***************************************************************************)
(* C11: there is no compensating rollback.  When a stage fails after a     *)
(* manifest was patched (the second resolution, a commit, the vendor       *)
(* tool), the failing step leaves both manifests and the last commit as    *)
(* they are, the run is Failed and takes no further step, and no step      *)
(* ever brings a rewritten manifest back to its content at the start.      *)
(***************************************************************************)
LastOp == IF Len(trace) = 0 THEN "" ELSE trace[Len(trace)].op

StagesAfterPatch == {"find_sha", "commit_bump", "vendor", "commit_vendor"}

C11_NoRollback ==
    [][/\ pc \notin {"done", "failed"}
       /\ nested # nested0 => nested' # nested0
       /\ toplevel # toplevel0 => toplevel' # toplevel0
       /\ Pipeline /\ pc \in StagesAfterPatch /\ pc' = "failed" =>
             /\ nested' = nested
             /\ toplevel' = toplevel
             /\ head_nested' = head_nested
             /\ head_toplevel' = head_toplevel
             /\ exit_code' # ExitOk]_vars

C11_Witness ==
    /\ command = "bump"
    /\ pc = "failed"
    /\ nested # nested0
    /\ head_nested = nested0
    /\ LastOp \in {"find_last_commit_sha", "commit", "mach vendor rust"}

(***************************************************************************)
(* C12: the exit status is 0 exactly when the pipeline of the selected     *)
(* command reached Done, that is when its last stage succeeded, and it is  *)
(* non-zero on every precondition, process, network (a failed request, a   *)
(* malformed response, a response lacking the expected field) and          *)
(* manifest I/O failure, on malformed arguments and on an unknown or       *)
(* missing command.                                                        *)
(***************************************************************************)
Commands == {"build", "bump", "local", "test"}

LastStageSucceeded ==
    /\ Len(trace) > 0
    /\ trace[Len(trace)].ok
    /\ CASE command = "build" -> LastOp = "make"
         [] command = "test" -> LastOp = repo_path \o "js/src/jit-test/jit_test.py"
         [] Pipeline -> LastOp = "commit" /\ Ops("mach vendor rust") # {}
         [] OTHER -> FALSE

ExitStatusByOutcome ==
    /\ exit_code = ExitOk <=> pc = "done"
    /\ pc = "done" => LastStageSucceeded
    /\ pc = "failed" => exit_code \in {ExitErr, ExitPanic, ExitUsage}
    /\ pc \notin {"done", "failed"} => exit_code = NotExited
    /\ \A i \in 1..Len(trace) : ~trace[i].ok => i = Len(trace) /\ pc = "failed"
    /\ pc # "main" /\ command \notin Commands => pc = "failed" /\ exit_code = ExitUsage

C12_ExitStatus ==
    /\ ExitStatusByOutcome
    /\ \A i \in 1..Len(trace) :
          \/ trace[i].op = "get_cranelift_version"
                /\ LacksField(trace[i].arg, <<"crate", "newest_version">>)
          \/ trace[i].op = "find_last_commit_sha" /\ LacksField(trace[i].arg, <<"sha">>)
          => exit_code # ExitOk

(***************************************************************************)
(* C13: for every input line sequence the top-level rewrite gives what     *)
(* the PatchState machine gives: a header-prefixed line is recognised      *)
(* only in Idle (0 below) and moves the state to CountingDown(2), every    *)
(* later line decrements the countdown, the line on which it reaches 0 is  *)
(* replaced by the rev line and the state is Idle again; a header seen     *)
(* while counting down neither restarts nor cancels the countdown.         *)
(***************************************************************************)
C13_MatchesPatchState ==
    passes = 1 =>
        LET RECURSIVE Machine(_, _)
            Machine(lines, countdown) ==
                IF Len(lines) = 0 THEN <<>>
                ELSE IF countdown = 0
                THEN <<Head(lines)>>
                         \o Machine(Tail(lines), IF IsPatchHeader(Head(lines)) THEN 2 ELSE 0)
                ELSE IF countdown = 1
                THEN <<RevLine(last_commit)>> \o Machine(Tail(lines), 0)
                ELSE <<Head(lines)>> \o Machine(Tail(lines), countdown - 1)
        IN  TopOut = Machine(TopIn, 0)

(***************************************************************************)
(* C14: for both backends commit returns Ok when the process exits zero;   *)
(* when it exits non-zero it returns Ok if and only if the standard        *)
(* output contains the sentinel of the backend as a substring, and         *)
(* otherwise an error whose message includes the captured standard output  *)
(* and standard error; it returns an error when the process cannot be      *)
(* started.                                                                *)
(***************************************************************************)
Sentinel(kind) == IF kind = "git" THEN "nothing to commit" ELSE "nothing changed"

C14_CommitResult ==
    \A i \in Ops("commit") :
        LET out == trace[i].out
        IN  /\ ~out.started => ~trace[i].ok
            /\ out.started /\ out.success => trace[i].ok
            /\ out.started /\ ~out.success =>
                  /\ trace[i].ok <=> contains(out.stdout, Sentinel(repo))
                  /\ ~trace[i].ok /\ pc = "returned" =>
                        contains(error, out.stdout) /\ contains(error, out.stderr)

(***************************************************************************)
(* C15: has_diff returns true exactly when the diff command wrote at       *)
(* least one byte on standard output, whatever its exit status, and an     *)
(* error only when the command cannot be started; so a diff command that   *)
(* exits non-zero with empty output counts as a clean tree and the run     *)
(* goes on past the check.                                                 *)
(***************************************************************************)
StoppedAtCheck(i) ==
    /\ i = Len(trace)
    /\ pc = "failed"
    /\ starts_with(error, "Diff isn't empty!") \/ starts_with(error, "Could not start ")

C15_HasDiff ==
    \A i \in Ops("has_diff") :
        LET out == trace[i].out
        IN  /\ has_diff(out).ok <=> out.started
            /\ out.started => (has_diff(out).diff <=> Len(out.stdout) > 0)
            /\ ~out.started => StoppedAtCheck(i) /\ starts_with(error, "Could not start ")
            /\ out.started /\ Len(out.stdout) > 0 =>
                  StoppedAtCheck(i) /\ starts_with(error, "Diff isn't empty!")
            /\ out.started /\ Len(out.stdout) = 0 => trace[i].ok /\ ~StoppedAtCheck(i)

C15_Witness ==
    \E i \in Ops("has_diff") :
        /\ trace[i].out.started
        /\ ~trace[i].out.success
        /\ Len(trace[i].out.stdout) = 0
        /\ trace[i].dirty
        /\ i < Len(trace)
        /\ Ops("replace_cranelift_version") # {}

(***************************************************************************)
(* C16: a local run makes no network request and never writes the          *)
(* top-level manifest: in every state of a local run the top-level         *)
(* manifest is as it was at the start, only the nested manifest is         *)
(* rewritten, with VersionSpec Path of the cranelift directory of the      *)
(* checkout, and the vendor tool is run without the large-imports flag.    *)
(***************************************************************************)
NetworkRequests == Ops("get_cranelift_version") \cup Ops("find_last_commit_sha")

C16_LocalFrame ==
    command = "local" =>
        /\ NetworkRequests = {}
        /\ Ops("replace_commit_sha") = {}
        /\ toplevel = toplevel0
        /\ head_toplevel = toplevel0
        /\ nested # nested0 => Ops("replace_cranelift_version") # {}
        /\ \A i \in Ops("replace_cranelift_version") :
              /\ version = Path(build_path)
              /\ ends_with(build_path, "/cranelift/")
              /\ trace[i].ok => nested = replace_cranelift_version(nested0, Path(build_path))
        /\ \A i \in Ops("mach vendor rust") : trace[i].arg = ""

C16_Witness ==
    /\ command = "local"
    /\ pc = "done"
    /\ nested # nested0
    /\ head_nested = nested
    /\ Ops("mach vendor rust") # {}

(***************************************************************************)
(* C17: a bump given an option other than --allow-large or -a fails        *)
(* before any network request, manifest write, commit or vendor run; the   *)
(* vendor tool gets the large-imports flag exactly when bump was given     *)
(* --allow-large or -a.                                                    *)
(***************************************************************************)
BumpOptionGiven == Len(args0) >= 4

BumpOption == args0[4]

AllowLargeGiven == BumpOptionGiven /\ BumpOption \in {"--allow-large", "-a"}

C17_BumpOption ==
    command = "bump" =>
        /\ BumpOptionGiven /\ ~AllowLargeGiven =>
              /\ NetworkRequests = {}
              /\ Mutations = {}
              /\ ManifestsUntouched
              /\ pc \in {"get_repo_arg", "set_cwd", "detect", "has_diff", "bump_option", "failed"}
        /\ \A i \in Ops("mach vendor rust") :
              /\ trace[i].arg \in {"", LargeFlag}
              /\ trace[i].arg = LargeFlag <=> AllowLargeGiven

C17_Witness ==
    /\ command = "bump"
    /\ BumpOptionGiven
    /\ BumpOption = "--force"
    /\ pc = "failed"
    /\ error = "unknown bump option: --force"
    /\ \E i \in Ops("has_diff") : trace[i].ok

(***************************************************************************)
(* C18: every external call returning, every bump or local run eventually  *)
(* reaches Done or Failed and takes no step after that; nothing is         *)
(* retried, so each external call is made at most once in each stage.      *)
(***************************************************************************)
Terminated == pc \in {"done", "failed"}

OncePerRun ==
    {"set_current_dir", "get_vcs_for_repo", "has_diff", "get_cranelift_version",
     "find_last_commit_sha", "replace_cranelift_version", "replace_commit_sha",
     "mach vendor rust"}

AtMostOncePerStage ==
    /\ \A op \in OncePerRun : Cardinality(Ops(op)) <= 1
    /\ \A rank \in {4, 6} : Cardinality({i \in Ops("commit") : StageRank(i) = rank}) <= 1

C18_Terminates ==
    /\ [][~Terminated /\ (Pipeline' => AtMostOncePerStage')]_vars
    /\ Pipeline ~> Terminated

C18_Witness ==
    /\ Pipeline
    /\ pc = "done"
    /\ Cardinality(Ops("commit")) = 2
    /\ Cardinality(Ops("has_diff")) = 1

====
